---- MODULE Spec2Model ----
(***************************************************************************)
(* Actor detection in diagram images: the detection pipeline of            *)
(* actor_detector.py (template matching, head verification, caption        *)
(* extraction, 25 px merge), the report filter of pdf_builder.py and the   *)
(* upload handlers of main.py.                                             *)
(*                                                                         *)
(* Text is a sequence of one-character strings (<<"a", " ">> is "a ").     *)
(* A position is a pair <<x, y>> of integers.                              *)
(***************************************************************************)
EXTENDS Integers, Sequences, FiniteSets, TLC

VARIABLES
    \* ---- DrawIOActorDetector and one call of detect_actors ----
    width,          \* self.width
    height,         \* self.height
    locs,           \* the image's accepted match responses (res >= 0.41): records [size, pt]
    hough,          \* head-circle outcome of the image at each examined position
    pc,             \* position inside detect_actors
    sizeIdx,        \* index of the template size being matched
    pending,        \* accepted locations of the current size still to visit
    actors,         \* candidates accumulated by find_actors_by_template
    idx,            \* 1-based index of the candidate examined by the main loop
    verified,       \* head-confirmed candidates
    text_results,   \* (id, caption) records
    final_actors,   \* candidates retained by the 25 px merge
    result,         \* value returned by detect_actors, or None
    ocr_failed,     \* ids whose text-recognition call raised in this run
    prev,           \* summary of the last completed earlier run over the same image
    runs,           \* number of detect_actors calls started
    \* ---- one call of filter_and_renumber_actors ----
    actors_list,    \* its argument: (actor_id, actor_name) records
    fstate,         \* "call" before it ran, "returned" after
    renumbered,     \* the list it returns
    stats,          \* the statistics it returns
    \* ---- the upload handlers of main.py and the files they touch ----
    nreq,           \* requests received so far; the current one's number
    hpc,            \* position of the running handler
    req,            \* the running handler's parameters and locals
    response,       \* what the last finished handler answered, or None
    files,          \* paths that exist in TEMP_DIR and the working directory
    overlay_by,     \* request whose draw_results wrote the overlay's content, 0 if none
    write_log,      \* every file write so far: [path, by]
    read_log,       \* every file read by a report so far: [path, by, content_by]
    \* ---- one call of a single method of the detector ----
    call,           \* its arguments
    extern,         \* what the external capability it uses was asked and returned
    ret,            \* its return value, or None
    cstate          \* "call" before it ran, "returned" after

dvars == <<width, height, locs, hough, pc, sizeIdx, pending, actors, idx,
           verified, text_results, final_actors, result, ocr_failed, prev, runs>>

fvars == <<actors_list, fstate, renumbered, stats>>

hvars == <<nreq, hpc, req, response, files, overlay_by, write_log, read_log>>

cvars == <<call, extern, ret, cstate>>

vars == <<dvars, fvars, hvars, cvars>>

\* the absent value (Python None)
None == [none |-> TRUE]

\* the parts of the state a specification does not exercise
DetectorUnused ==
    /\ width = 0
    /\ height = 0
    /\ locs = {}
    /\ hough = <<>>
    /\ pc = "unused"
    /\ sizeIdx = 0
    /\ pending = <<>>
    /\ actors = <<>>
    /\ idx = 0
    /\ verified = <<>>
    /\ text_results = <<>>
    /\ final_actors = <<>>
    /\ result = None
    /\ ocr_failed = {}
    /\ prev = None
    /\ runs = 0

FilterUnused ==
    /\ actors_list = <<>>
    /\ fstate = "unused"
    /\ renumbered = <<>>
    /\ stats = None

HandlersUnused ==
    /\ nreq = 0
    /\ hpc = "unused"
    /\ req = None
    /\ response = None
    /\ files = {}
    /\ overlay_by = 0
    /\ write_log = {}
    /\ read_log = {}

\* the external capability was not called
NotCalled == [called |-> FALSE]

CallUnused ==
    /\ call = None
    /\ extern = NotCalled
    /\ ret = None
    /\ cstate = "unused"

\* the detector's pipeline state when a single method is called on it
PipelineIdle ==
    /\ locs = {}
    /\ hough = <<>>
    /\ pc = "unused"
    /\ sizeIdx = 0
    /\ pending = <<>>
    /\ actors = <<>>
    /\ idx = 0
    /\ verified = <<>>
    /\ text_results = <<>>
    /\ final_actors = <<>>
    /\ result = None
    /\ ocr_failed = {}
    /\ prev = None
    /\ runs = 0

\* ------------------------------------------------------------------
\* Bounds of the explored inputs
\* ------------------------------------------------------------------
MaxLocs == 3        \* accepted match responses per image
MaxRuns == 2        \* detect_actors calls over one image
MaxRecs == 3        \* records passed to filter_and_renumber_actors
MaxLen == 2         \* characters of a caption passed to it
MaxRequests == 2    \* requests served by the process
MaxCircles == 2     \* circles HoughCircles returns for one ROI

HeadImageWidth == 60    \* image of the explored verify_head_circle calls
HeadImageHeight == 50

TextImageWidth == 200   \* image of the explored extract_text_below calls
TextImageHeight == 150

MaxMerge == 3       \* positions in a list handed to the merge step alone
MaxPixels == 3      \* pixels of a grayscale image handed to preprocess

ImageWidth == 120
ImageHeight == 120

\* Accepted responses the explored images are built from (top-left corner
\* of the match and template size).  Centers: (20,20) (30,20) (20,38)
\* (29,32) (25,25) (35,35) (35,40) (40,40).
Responses ==
    { [size |-> 40, pt |-> <<0, 0>>],
      [size |-> 40, pt |-> <<10, 0>>],
      [size |-> 40, pt |-> <<0, 18>>],
      [size |-> 40, pt |-> <<9, 12>>],
      [size |-> 50, pt |-> <<0, 0>>],
      [size |-> 70, pt |-> <<0, 0>>],
      [size |-> 70, pt |-> <<0, 5>>],
      [size |-> 80, pt |-> <<0, 0>>] }

\* What the text-recognition capability may return for a crop: the list of
\* recognized spans (only the text field is used).
OcrReturns ==
    { <<>>,
      << <<" ">> >>,
      << <<"a">> >> }

\* ------------------------------------------------------------------
\* Program constants
\* ------------------------------------------------------------------
template_sizes == <<40, 50, 60, 70, 80>>
MATCH_RADIUS == 15
DEDUP_RADIUS == 25
roi_h == 80
roi_w == 160
search_height == 35
search_width == 50
HEAD_X_TOLERANCE == 25
HOUGH_MIN_DIST == 20

\* ------------------------------------------------------------------
\* Helpers
\* ------------------------------------------------------------------
Max(a, b) == IF a >= b THEN a ELSE b
Min(a, b) == IF a <= b THEN a ELSE b

\* math.dist(a, b) > r on integer coordinates
Dist2(a, b) == (a[1] - b[1]) * (a[1] - b[1]) + (a[2] - b[2]) * (a[2] - b[2])
FarApart(a, b, r) == Dist2(a, b) > r * r

\* all(math.dist(p, q) > r for q in seq)
FarFromAll(p, seq, r) == \A k \in 1..Len(seq) : FarApart(p, seq[k], r)

IsSpace(c) == c \in {" ", "\t", "\n"}

\* str.strip()
RECURSIVE LStrip(_)
LStrip(s) == IF s # <<>> /\ IsSpace(Head(s)) THEN LStrip(Tail(s)) ELSE s
RECURSIVE RStrip(_)
RStrip(s) ==
    IF s # <<>> /\ IsSpace(s[Len(s)]) THEN RStrip(SubSeq(s, 1, Len(s) - 1)) ELSE s
Strip(s) == RStrip(LStrip(s))

\* " ".join(spans)
RECURSIVE Join(_)
Join(spans) ==
    IF spans = <<>> THEN <<>>
    ELSE IF Len(spans) = 1 THEN spans[1]
    ELSE spans[1] \o <<" ">> \o Join(Tail(spans))

\* ------------------------------------------------------------------
\* find_actors_by_template
\* ------------------------------------------------------------------
\* (mutation) column-major walk: by x, then y
ColumnBefore(p, q) == p[1] < q[1] \/ (p[1] = q[1] /\ p[2] < q[2])

\* np.where(res >= 0.41) walked by zip(*locs[::-1]): row-major, so by y, then x
RasterBefore(p, q) == p[2] < q[2] \/ (p[2] = q[2] /\ p[1] < q[1])

RECURSIVE RasterOrder(_)
RasterOrder(pts) ==
    IF pts = {} THEN <<>>
    ELSE LET first == CHOOSE p \in pts : \A q \in pts \ {p} : RasterBefore(p, q)
         IN  <<first>> \o RasterOrder(pts \ {first})

\* accepted locations of one template size
LocsOfSize(size) == { l.pt : l \in { m \in locs : m.size = size } }

\* center = (pt[0]+size//2, pt[1]+size//2)
Center(pt, size) == <<pt[1] + size \div 2, pt[2] + size \div 2>>

\* if all(math.dist(center, a) > 15 for a in actors): actors.append(center)
InsertCandidate(acc, center) ==
    IF FarFromAll(center, acc, MATCH_RADIUS) THEN Append(acc, center) ELSE acc

\* ------------------------------------------------------------------
\* extract_text_below
\* ------------------------------------------------------------------
TextRoi(pos) ==
    [x1 |-> Max(0, pos[1] - roi_w \div 2),
     x2 |-> Min(width, pos[1] + roi_w \div 2),
     y1 |-> pos[2] + 10,
     y2 |-> Min(height, pos[2] + roi_h)]

\* roi.size == 0 for the slice image[y1:y2, x1:x2]
TextRoiEmpty(pos) ==
    LET r == TextRoi(pos) IN r.y2 <= r.y1 \/ r.x2 <= r.x1

\* " ".join([txt[1] for txt in result]).strip()
CaptionOf(spans) == Strip(Join(spans))

\* ------------------------------------------------------------------
\* detect_actors
\* ------------------------------------------------------------------
\* (mutation) a confirmed candidate is kept only when a caption was read
VerifiedAfterIfNamed(acc, actor_pos, text) ==
    IF text = <<>> THEN acc ELSE Append(acc, actor_pos)

\* verified.append(actor_pos), reached only when the head was confirmed
VerifiedAfter(acc, actor_pos, text) == Append(acc, actor_pos)

\* text_results.append((idx+1, text))
RecordAfter(acc, id, text) == Append(acc, <<id, text>>)

\* the retained list with its first element within r of p replaced by p
RECURSIVE ReplaceNear(_, _, _)
ReplaceNear(acc, p, r) ==
    IF acc = <<>> THEN <<>>
    ELSE IF FarApart(p, Head(acc), r) THEN <<Head(acc)>> \o ReplaceNear(Tail(acc), p, r)
    ELSE <<p>> \o Tail(acc)

\* (mutation) last wins: a position near a retained one takes its place
RECURSIVE MergeIntoLastWins(_, _)
MergeIntoLastWins(acc, rest) ==
    IF rest = <<>> THEN acc
    ELSE MergeIntoLastWins(IF FarFromAll(Head(rest), acc, DEDUP_RADIUS)
                           THEN Append(acc, Head(rest))
                           ELSE ReplaceNear(acc, Head(rest), DEDUP_RADIUS),
                           Tail(rest))

\* for a in verified: if all(math.dist(a, b) > 25 for b in final_actors): append
RECURSIVE MergeInto(_, _)
MergeInto(acc, rest) ==
    IF rest = <<>> THEN acc
    ELSE MergeInto(IF FarFromAll(Head(rest), acc, DEDUP_RADIUS)
                   THEN Append(acc, Head(rest)) ELSE acc,
                   Tail(rest))

\* (mutation) compares with every earlier confirmed candidate, retained or not
RECURSIVE MergeAgainstAll(_, _, _)
MergeAgainstAll(acc, seen, rest) ==
    IF rest = <<>> THEN acc
    ELSE MergeAgainstAll(IF FarFromAll(Head(rest), seen, DEDUP_RADIUS)
                         THEN Append(acc, Head(rest)) ELSE acc,
                         Append(seen, Head(rest)),
                         Tail(rest))

RemoveNearDuplicatesAgainstAll(confirmed) == MergeAgainstAll(<<>>, <<>>, confirmed)

RemoveNearDuplicates(confirmed) == MergeInto(<<>>, confirmed)

\* return len(final_actors), final_actors, text_results
DetectReturn(finals, records) ==
    [final_count |-> Len(finals), final_positions |-> finals, raw_records |-> records]

\* number of records with a non-empty caption
NamedCount(records) == Cardinality({ k \in 1..Len(records) : records[k][2] # <<>> })

InitDetect ==
    /\ width = ImageWidth
    /\ height = ImageHeight
    /\ locs \in { S \in SUBSET Responses : Cardinality(S) <= MaxLocs }
    /\ hough = <<>>
    /\ pc = "start"
    /\ sizeIdx = 0
    /\ pending = <<>>
    /\ actors = <<>>
    /\ idx = 0
    /\ verified = <<>>
    /\ text_results = <<>>
    /\ final_actors = <<>>
    /\ result = None
    /\ ocr_failed = {}
    /\ prev = None
    /\ runs = 1
    /\ FilterUnused
    /\ HandlersUnused
    /\ CallUnused

\* detect_actors entry: preprocess, then find_actors_by_template starts
DetectStart ==
    /\ pc = "start"
    /\ pc' = "match"
    /\ sizeIdx' = 0
    /\ pending' = <<>>
    /\ actors' = <<>>
    /\ UNCHANGED <<width, height, locs, hough, idx, verified, text_results,
                   final_actors, result, ocr_failed, prev, runs>>
    /\ UNCHANGED <<fvars, hvars, cvars>>

\* for size in template_sizes: matchTemplate, np.where(res >= 0.41)
NextTemplate ==
    /\ pc = "match"
    /\ pending = <<>>
    /\ sizeIdx < Len(template_sizes)
    /\ sizeIdx' = sizeIdx + 1
    /\ pending' = RasterOrder(LocsOfSize(template_sizes[sizeIdx + 1]))
    /\ UNCHANGED <<width, height, locs, hough, pc, actors, idx, verified,
                   text_results, final_actors, result, ocr_failed, prev, runs>>
    /\ UNCHANGED <<fvars, hvars, cvars>>

\* for pt in zip(*locs[::-1]): one iteration
VisitLocation ==
    /\ pc = "match"
    /\ pending # <<>>
    /\ actors' = InsertCandidate(actors, Center(Head(pending), template_sizes[sizeIdx]))
    /\ pending' = Tail(pending)
    /\ UNCHANGED <<width, height, locs, hough, pc, sizeIdx, idx, verified,
                   text_results, final_actors, result, ocr_failed, prev, runs>>
    /\ UNCHANGED <<fvars, hvars, cvars>>

\* return actors; detect_actors enters its loop over the candidates
MatchReturn ==
    /\ pc = "match"
    /\ pending = <<>>
    /\ sizeIdx = Len(template_sizes)
    /\ pc' = "verify"
    /\ idx' = 1
    /\ verified' = <<>>
    /\ text_results' = <<>>
    /\ UNCHANGED <<width, height, locs, hough, sizeIdx, pending, actors,
                   final_actors, result, ocr_failed, prev, runs>>
    /\ UNCHANGED <<fvars, hvars, cvars>>

\* outcomes verify_head_circle can have at a position of this image
HeadOutcomes(pos) == IF pos \in DOMAIN hough THEN {hough[pos]} ELSE BOOLEAN

\* loop body, verify_head_circle returned ok = False
VerifyUnconfirmed ==
    /\ pc = "verify"
    /\ idx <= Len(actors)
    /\ FALSE \in HeadOutcomes(actors[idx])
    /\ hough' = (actors[idx] :> FALSE) @@ hough
    /\ text_results' = RecordAfter(text_results, idx, <<>>)
    /\ idx' = idx + 1
    /\ UNCHANGED <<width, height, locs, pc, sizeIdx, pending, actors, verified,
                   final_actors, result, ocr_failed, prev, runs>>
    /\ UNCHANGED <<fvars, hvars, cvars>>

\* loop body, ok = True and extract_text_below returned a caption
VerifyConfirmed ==
    /\ pc = "verify"
    /\ idx <= Len(actors)
    /\ TRUE \in HeadOutcomes(actors[idx])
    /\ hough' = (actors[idx] :> TRUE) @@ hough
    /\ \E spans \in OcrReturns :
         LET text == IF TextRoiEmpty(actors[idx]) THEN <<>> ELSE CaptionOf(spans)
         IN  /\ text_results' = RecordAfter(text_results, idx, text)
             /\ verified' = VerifiedAfter(verified, actors[idx], text)
    /\ idx' = idx + 1
    /\ UNCHANGED <<width, height, locs, pc, sizeIdx, pending, actors,
                   final_actors, result, ocr_failed, prev, runs>>
    /\ UNCHANGED <<fvars, hvars, cvars>>

\* loop body, ok = True and easyocr raised inside extract_text_below: nothing
\* between the call and the caller of detect_actors catches it
VerifyOcrRaises ==
    /\ pc = "verify"
    /\ idx <= Len(actors)
    /\ TRUE \in HeadOutcomes(actors[idx])
    /\ ~TextRoiEmpty(actors[idx])
    /\ hough' = (actors[idx] :> TRUE) @@ hough
    /\ ocr_failed' = ocr_failed \cup {idx}
    /\ pc' = "raised"
    /\ UNCHANGED <<width, height, locs, sizeIdx, pending, actors, idx, verified,
                   text_results, final_actors, result, prev, runs>>
    /\ UNCHANGED <<fvars, hvars, cvars>>

\* "Remove near duplicates"
Dedup ==
    /\ pc = "verify"
    /\ idx > Len(actors)
    /\ final_actors' = RemoveNearDuplicates(verified)
    /\ pc' = "draw"
    /\ UNCHANGED <<width, height, locs, hough, sizeIdx, pending, actors, idx,
                   verified, text_results, result, ocr_failed, prev, runs>>
    /\ UNCHANGED <<fvars, hvars, cvars>>

\* draw_results, then the return
DrawAndReturn ==
    /\ pc = "draw"
    /\ result' = DetectReturn(final_actors, text_results)
    /\ pc' = "done"
    /\ UNCHANGED <<width, height, locs, hough, sizeIdx, pending, actors, idx,
                   verified, text_results, final_actors, ocr_failed, prev, runs>>
    /\ UNCHANGED <<fvars, hvars, cvars>>

\* a further detect_actors call over the same image
Rerun ==
    /\ pc \in {"done", "raised"}
    /\ runs < MaxRuns
    /\ runs' = runs + 1
    /\ prev' = IF pc = "done"
               THEN [final_count |-> result.final_count,
                     final_positions |-> result.final_positions,
                     named |-> NamedCount(result.raw_records)]
               ELSE prev
    /\ pc' = "start"
    /\ sizeIdx' = 0
    /\ pending' = <<>>
    /\ actors' = <<>>
    /\ idx' = 0
    /\ verified' = <<>>
    /\ text_results' = <<>>
    /\ final_actors' = <<>>
    /\ result' = None
    /\ ocr_failed' = {}
    /\ UNCHANGED <<width, height, locs, hough>>
    /\ UNCHANGED <<fvars, hvars, cvars>>

NextDetect ==
    \/ DetectStart
    \/ NextTemplate
    \/ VisitLocation
    \/ MatchReturn
    \/ VerifyUnconfirmed
    \/ VerifyConfirmed
    \/ VerifyOcrRaises
    \/ Dedup
    \/ DrawAndReturn
    \/ Rerun

SpecDetect == InitDetect /\ [][NextDetect]_vars

\* ------------------------------------------------------------------
\* filter_and_renumber_actors
\* ------------------------------------------------------------------
Chars == {"a", " "}
Captions == UNION { [1..n -> Chars] : n \in 0..MaxLen }

\* the ids of an explored argument: 1..n as detect_actors numbers them,
\* the same reversed, or one repeated id
IdSchemes == {"detection", "reversed", "repeated"}
InputId(scheme, k, n) ==
    CASE scheme = "detection" -> k
      [] scheme = "reversed" -> n + 1 - k
      [] scheme = "repeated" -> 7

\* (mutation) "if name": the whitespace-only captions pass
HasNameUnstripped(name) == name # <<>>

\* "if name and name.strip()"
HasName(name) == name # <<>> /\ Strip(name) # <<>>

\* [(actor_id, name.strip()) for actor_id, name in actors_list if name and name.strip()]
RECURSIVE Filtered(_)
Filtered(list) ==
    IF list = <<>> THEN <<>>
    ELSE (IF HasName(Head(list)[2])
          THEN << <<Head(list)[1], Strip(Head(list)[2])>> >>
          ELSE <<>>) \o Filtered(Tail(list))

\* for new_id, (old_id, name) in enumerate(filtered, start=1)
Renumber(filtered) == [k \in 1..Len(filtered) |-> <<k, filtered[k][2]>>]

\* (mutation) without_names counts the named records
StatsSwapped(list, filtered, out) ==
    [total_detected |-> Len(list),
     with_names |-> Len(filtered),
     without_names |-> Len(filtered),
     filtered_list |-> out]

\* stats = {...}
Stats(list, filtered, out) ==
    [total_detected |-> Len(list),
     with_names |-> Len(filtered),
     without_names |-> Len(list) - Len(filtered),
     filtered_list |-> out]

InitFilter ==
    /\ \E n \in 0..MaxRecs, scheme \in IdSchemes :
         \E names \in [1..n -> Captions] :
            actors_list = [k \in 1..n |-> <<InputId(scheme, k, n), names[k]>>]
    /\ fstate = "call"
    /\ renumbered = <<>>
    /\ stats = None
    /\ DetectorUnused
    /\ HandlersUnused
    /\ CallUnused

FilterAndRenumber ==
    /\ fstate = "call"
    /\ LET filtered == Filtered(actors_list)
           out == Renumber(filtered)
       IN  /\ renumbered' = out
           /\ stats' = Stats(actors_list, filtered, out)
    /\ fstate' = "returned"
    /\ UNCHANGED actors_list
    /\ UNCHANGED <<dvars, hvars, cvars>>

NextFilter == FilterAndRenumber

SpecFilter == InitFilter /\ [][NextFilter]_vars

\* ------------------------------------------------------------------
\* main.py: POST /detect-actors/ and POST /detect-actors-simple/
\*
\* Both handlers are "async def" with no await in their bodies, so the
\* event loop runs one handler to its end before it starts the next.
\* ------------------------------------------------------------------
Endpoints == {"/detect-actors/", "/detect-actors-simple/"}

\* values of the format query parameter that are explored
Formats == {"pdf", "PDF", "json", "compact-pdf", "xml"}

\* format.lower()
Lower(f) == IF f = "PDF" THEN "pdf" ELSE f

\* cv2.imwrite("actors_debug_output.png", out): a path in the working directory
OVERLAY_PATH == <<"actors_debug_output.png", 0>>

\* tempfile.NamedTemporaryFile(delete=False, suffix=..., dir=TEMP_DIR): a new
\* file under a name that no file has
TempName(n) == <<"tmp", n>>

\* the answer of a handler
Answer(status, kind, detail, embedded) ==
    [status |-> status, kind |-> kind, detail |-> detail, embedded |-> embedded]

\* raise HTTPException(status_code=500, detail=f"Error processing image: {str(e)}")
ErrorAnswer(e) == Answer(500, "error", <<"Error processing image", e>>, 0)

\* the stages of detect_actors that ran when it returned
AllStages == {"binarize", "match", "verify", "ocr", "dedup", "draw"}

\* the stages that ran when an exception left detect_actors: cv2 raising in
\* the matcher, or easyocr raising for a confirmed candidate
StagesBeforeRaise == { {"binarize", "match"}, {"binarize", "match", "verify", "ocr"} }

InitHttp ==
    /\ nreq = 0
    /\ hpc = "idle"
    /\ req = None
    /\ response = None
    /\ files = {}
    /\ overlay_by = 0
    /\ write_log = {}
    /\ read_log = {}
    /\ DetectorUnused
    /\ FilterUnused
    /\ CallUnused

\* a request arrives; the simple endpoint has neither debug nor format
Receive ==
    /\ hpc \in {"idle", "finished"}
    /\ nreq < MaxRequests
    /\ nreq' = nreq + 1
    /\ \E e \in Endpoints, ext \in BOOLEAN, d \in BOOLEAN, f \in Formats :
         /\ e = "/detect-actors-simple/" => (d = FALSE /\ f = "pdf")
         /\ req' = [id |-> nreq + 1, endpoint |-> e, ext_allowed |-> ext,
                    debug |-> d, format |-> f,
                    created |-> None, temp_file_path |-> None,
                    processed_image_path |-> None,
                    image |-> "unread", stages |-> {}, exc |-> None]
    /\ hpc' = "validate"
    /\ response' = None
    /\ UNCHANGED <<files, overlay_by, write_log, read_log>>
    /\ UNCHANGED <<dvars, fvars, cvars>>

\* if file_extension not in allowed_extensions: raise HTTPException(400), before the try
ValidateRejects ==
    /\ hpc = "validate"
    /\ ~req.ext_allowed
    /\ response' = Answer(400, "error", <<"File type not allowed">>, 0)
    /\ hpc' = "finished"
    /\ UNCHANGED <<nreq, req, files, overlay_by, write_log, read_log>>
    /\ UNCHANGED <<dvars, fvars, cvars>>

\* temp_file_path = None; try: with tempfile.NamedTemporaryFile(...) as temp_file
CreateTemp ==
    /\ hpc = "validate"
    /\ req.ext_allowed
    /\ LET name == TempName(req.id)
       IN  /\ name \notin files
           /\ files' = files \cup {name}
           /\ write_log' = write_log \cup {[path |-> name, by |-> req.id]}
           /\ req' = [req EXCEPT !.created = name]
    /\ hpc' = "copy"
    /\ UNCHANGED <<nreq, response, overlay_by, read_log>>
    /\ UNCHANGED <<dvars, fvars, cvars>>

\* shutil.copyfileobj(file.file, temp_file); temp_file_path = temp_file.name
CopyUpload ==
    /\ hpc = "copy"
    /\ req' = [req EXCEPT !.temp_file_path = req.created]
    /\ hpc' = "load"
    /\ UNCHANGED <<nreq, response, files, overlay_by, write_log, read_log>>
    /\ UNCHANGED <<dvars, fvars, cvars>>

\* shutil.copyfileobj raises (the read of the upload or the write to the
\* temp file fails): the with block closes the file and the assignment of
\* temp_file_path is not reached
CopyRaises ==
    /\ hpc = "copy"
    /\ req' = [req EXCEPT !.exc = "copy failed"]
    /\ hpc' = "except"
    /\ UNCHANGED <<nreq, response, files, overlay_by, write_log, read_log>>
    /\ UNCHANGED <<dvars, fvars, cvars>>

\* (mutation) no "if img is None" check: the pipeline starts without an image
LoadImageUnchecked(readable) ==
    [hpc |-> "detect", exc |-> None]

\* DrawIOActorDetector.__init__: img = cv2.imread(...); if img is None: raise ValueError
LoadImage(readable) ==
    IF readable
    THEN [hpc |-> "detect", exc |-> None]
    ELSE [hpc |-> "except", exc |-> "Could not load image"]

\* detector = DrawIOActorDetector(temp_file_path, debug=debug)
Load ==
    /\ hpc = "load"
    /\ \E readable \in BOOLEAN :
         LET r == LoadImage(readable)
         IN  /\ hpc' = r.hpc
             /\ req' = [req EXCEPT !.image = IF readable THEN "loaded" ELSE "unreadable",
                                   !.exc = r.exc]
    /\ UNCHANGED <<nreq, response, files, overlay_by, write_log, read_log>>
    /\ UNCHANGED <<dvars, fvars, cvars>>

\* detector.detect_actors() returns: every stage ran and draw_results wrote
\* the overlay; then "if debug: processed_image_path = ..."
DetectReturns ==
    /\ hpc = "detect"
    /\ files' = files \cup {OVERLAY_PATH}
    /\ overlay_by' = req.id
    /\ write_log' = write_log \cup {[path |-> OVERLAY_PATH, by |-> req.id]}
    /\ req' = [req EXCEPT !.stages = AllStages,
                          !.processed_image_path =
                              IF req.endpoint = "/detect-actors/" /\ req.debug
                              THEN OVERLAY_PATH ELSE None]
    /\ hpc' = "respond"
    /\ UNCHANGED <<nreq, response, read_log>>
    /\ UNCHANGED <<dvars, fvars, cvars>>

\* detector.detect_actors() raises before draw_results
DetectRaises ==
    /\ hpc = "detect"
    /\ \E ran \in StagesBeforeRaise :
         req' = [req EXCEPT !.stages = ran, !.exc = "detection failed"]
    /\ hpc' = "except"
    /\ UNCHANGED <<nreq, response, files, overlay_by, write_log, read_log>>
    /\ UNCHANGED <<dvars, fvars, cvars>>

\* format.lower() == "json": return JSONResponse
RespondJson ==
    /\ hpc = "respond"
    /\ req.endpoint = "/detect-actors/"
    /\ Lower(req.format) = "json"
    /\ response' = Answer(200, "json", <<>>, 0)
    /\ hpc' = "finally"
    /\ UNCHANGED <<nreq, req, files, overlay_by, write_log, read_log>>
    /\ UNCHANGED <<dvars, fvars, cvars>>

\* format.lower() == "pdf": create_actors_pdf(..., image_path=processed_image_path)
\* embeds the file at image_path when the path is set and exists
RespondPdf ==
    /\ hpc = "respond"
    /\ req.endpoint = "/detect-actors/"
    /\ Lower(req.format) = "pdf"
    /\ LET embeds == req.processed_image_path # None
                     /\ req.processed_image_path \in files
       IN  /\ response' = Answer(200, "pdf", <<>>, IF embeds THEN overlay_by ELSE 0)
           /\ read_log' = IF embeds
                          THEN read_log \cup {[path |-> req.processed_image_path,
                                               by |-> req.id, content_by |-> overlay_by]}
                          ELSE read_log
    /\ hpc' = "finally"
    /\ UNCHANGED <<nreq, req, files, overlay_by, write_log>>
    /\ UNCHANGED <<dvars, fvars, cvars>>

\* format.lower() == "compact-pdf": create_compact_actors_pdf(actors_list)
RespondCompactPdf ==
    /\ hpc = "respond"
    /\ req.endpoint = "/detect-actors/"
    /\ Lower(req.format) = "compact-pdf"
    /\ response' = Answer(200, "compact-pdf", <<>>, 0)
    /\ hpc' = "finally"
    /\ UNCHANGED <<nreq, req, files, overlay_by, write_log, read_log>>
    /\ UNCHANGED <<dvars, fvars, cvars>>

\* else: raise HTTPException(status_code=400, ...), inside the try: the
\* "except Exception" clause below catches it
RespondInvalidFormat ==
    /\ hpc = "respond"
    /\ req.endpoint = "/detect-actors/"
    /\ Lower(req.format) \notin {"json", "pdf", "compact-pdf"}
    /\ req' = [req EXCEPT !.exc = "400: Invalid format"]
    /\ hpc' = "except"
    /\ UNCHANGED <<nreq, response, files, overlay_by, write_log, read_log>>
    /\ UNCHANGED <<dvars, fvars, cvars>>

\* detect_actors_simple: create_simple_actors_pdf(actors_list)
RespondSimplePdf ==
    /\ hpc = "respond"
    /\ req.endpoint = "/detect-actors-simple/"
    /\ response' = Answer(200, "simple-pdf", <<>>, 0)
    /\ hpc' = "finally"
    /\ UNCHANGED <<nreq, req, files, overlay_by, write_log, read_log>>
    /\ UNCHANGED <<dvars, fvars, cvars>>

\* building the report raises (doc.build)
ReportRaises ==
    /\ hpc = "respond"
    /\ Lower(req.format) \in {"pdf", "compact-pdf"}
    /\ req' = [req EXCEPT !.exc = "report failed"]
    /\ hpc' = "except"
    /\ UNCHANGED <<nreq, response, files, overlay_by, write_log, read_log>>
    /\ UNCHANGED <<dvars, fvars, cvars>>

\* except Exception as e: raise HTTPException(status_code=500, ...)
Except ==
    /\ hpc = "except"
    /\ response' = ErrorAnswer(req.exc)
    /\ hpc' = "finally"
    /\ UNCHANGED <<nreq, req, files, overlay_by, write_log, read_log>>
    /\ UNCHANGED <<dvars, fvars, cvars>>

\* if temp_file_path and os.path.exists(temp_file_path): os.unlink(temp_file_path)
RemoveTemp(path, existing) ==
    IF path # None /\ path \in existing THEN existing \ {path} ELSE existing

\* finally:
Finally ==
    /\ hpc = "finally"
    /\ files' = RemoveTemp(req.temp_file_path, files)
    /\ hpc' = "finished"
    /\ UNCHANGED <<nreq, req, response, overlay_by, write_log, read_log>>
    /\ UNCHANGED <<dvars, fvars, cvars>>

NextHttp ==
    \/ Receive
    \/ ValidateRejects
    \/ CreateTemp
    \/ CopyUpload
    \/ CopyRaises
    \/ Load
    \/ DetectReturns
    \/ DetectRaises
    \/ RespondJson
    \/ RespondPdf
    \/ RespondCompactPdf
    \/ RespondInvalidFormat
    \/ RespondSimplePdf
    \/ ReportRaises
    \/ Except
    \/ Finally

SpecHttp == InitHttp /\ [][NextHttp]_vars

\* ------------------------------------------------------------------
\* verify_head_circle
\* ------------------------------------------------------------------
Abs(v) == IF v < 0 THEN -v ELSE v

\* the indices a[lo:hi] selects on an axis of length n, for lo, hi >= 0
Slice(lo, hi, n) == { k \in 0..(n - 1) : lo <= k /\ k < hi }

\* (mutation) the left and top edges are not clipped at 0
HeadRoiUnclipped(pos) ==
    [x1 |-> pos[1] - search_width \div 2,
     y1 |-> pos[2] - search_height,
     x2 |-> Min(width, pos[1] + search_width \div 2),
     y2 |-> pos[2]]

\* y1 = max(0, y - search_height); y2 = y; x1 = ...; x2 = ...
HeadRoi(pos) ==
    [x1 |-> Max(0, pos[1] - search_width \div 2),
     y1 |-> Max(0, pos[2] - search_height),
     x2 |-> Min(width, pos[1] + search_width \div 2),
     y2 |-> pos[2]]

\* roi = binary[y1:y2, x1:x2]
HeadRoiCols(pos) == Slice(HeadRoi(pos).x1, HeadRoi(pos).x2, width)
HeadRoiRows(pos) == Slice(HeadRoi(pos).y1, HeadRoi(pos).y2, height)

\* roi.size == 0
HeadRoiEmpty(pos) == HeadRoiCols(pos) = {} \/ HeadRoiRows(pos) = {}

\* (x1, y1, x2, y2)
RoiBox(r) == <<r.x1, r.y1, r.x2, r.y2>>

\* circles_abs.append((x1 + cx, y1 + cy, r))
CirclesAbs(pos, circles) ==
    [k \in 1..Len(circles) |->
        <<HeadRoi(pos).x1 + circles[k][1], HeadRoi(pos).y1 + circles[k][2], circles[k][3]>>]

\* if cy < y and abs(cx - x) < 25
AboveAndNear(c, pos) == c[2] < pos[2] /\ Abs(c[1] - pos[1]) < HEAD_X_TOLERANCE

\* (mutation) a later circle at the same distance replaces the best one
RECURSIVE MinByXLast(_, _, _)
MinByXLast(best, rest, x) ==
    IF rest = <<>> THEN best
    ELSE MinByXLast(IF Abs(Head(rest)[1] - x) <= Abs(best[1] - x)
                    THEN Head(rest) ELSE best,
                    Tail(rest), x)

\* min(circles_abs, key=lambda c: abs(c[0]-x)): the first of the smallest
RECURSIVE MinByX(_, _, _)
MinByX(best, rest, x) ==
    IF rest = <<>> THEN best
    ELSE MinByX(IF Abs(Head(rest)[1] - x) < Abs(best[1] - x)
                THEN Head(rest) ELSE best,
                Tail(rest), x)

\* the return for a non-empty ROI, given what HoughCircles returned (<<>>
\* stands for its None)
VerifyHeadCircle(pos, circles) ==
    LET kept == SelectSeq(CirclesAbs(pos, circles), LAMBDA c : AboveAndNear(c, pos))
    IN  IF circles = <<>> \/ kept = <<>>
        THEN [ok |-> FALSE, circle |-> None, roi_box |-> RoiBox(HeadRoi(pos))]
        ELSE [ok |-> TRUE,
              circle |-> MinByX(Head(kept), Tail(kept), pos[1]),
              roi_box |-> RoiBox(HeadRoi(pos))]

\* explored candidate positions: inside the image and on its borders
HeadXs == {0, 10, 24, 25, 30, HeadImageWidth - 25, HeadImageWidth - 10,
           HeadImageWidth - 1, HeadImageWidth}
HeadYs == {0, 1, 20, 34, 35, 40, HeadImageHeight - 1, HeadImageHeight}

\* circles np.uint16(np.around(circles[0])) can hold for a ROI of w x h
\* pixels: rounded centers in the ROI or on its far edge, at least minDist
\* apart
LocalCircles(w, h) ==
    { <<cx, cy, 8>> : cx \in {0, 15, 25, 35, w} \cap 0..w, cy \in {5, 30, h} \cap 0..h }

HoughReturns(w, h) ==
    { cs \in UNION { [1..n -> LocalCircles(w, h)] : n \in 0..MaxCircles } :
        \A i, j \in 1..Len(cs) :
            i < j => Dist2(cs[i], cs[j]) >= HOUGH_MIN_DIST * HOUGH_MIN_DIST }

InitHead ==
    /\ width = HeadImageWidth
    /\ height = HeadImageHeight
    /\ \E x \in HeadXs, y \in HeadYs : call = [actor_pos |-> <<x, y>>]
    /\ extern = NotCalled
    /\ ret = None
    /\ cstate = "call"
    /\ PipelineIdle
    /\ FilterUnused
    /\ HandlersUnused

\* if roi.size == 0: return False, None, (x1, y1, x2, y2)
VerifyHeadEmptyRoi ==
    /\ cstate = "call"
    /\ HeadRoiEmpty(call.actor_pos)
    /\ ret' = [ok |-> FALSE, circle |-> None, roi_box |-> RoiBox(HeadRoi(call.actor_pos))]
    /\ cstate' = "returned"
    /\ UNCHANGED <<call, extern>>
    /\ UNCHANGED <<dvars, fvars, hvars>>

\* GaussianBlur, HoughCircles, filter, min
VerifyHeadSearch ==
    /\ cstate = "call"
    /\ ~HeadRoiEmpty(call.actor_pos)
    /\ \E cs \in HoughReturns(Cardinality(HeadRoiCols(call.actor_pos)),
                             Cardinality(HeadRoiRows(call.actor_pos))) :
         /\ extern' = [called |-> TRUE, circles |-> cs]
         /\ ret' = VerifyHeadCircle(call.actor_pos, cs)
    /\ cstate' = "returned"
    /\ UNCHANGED call
    /\ UNCHANGED <<dvars, fvars, hvars>>

NextHead ==
    \/ VerifyHeadEmptyRoi
    \/ VerifyHeadSearch

SpecHead == InitHead /\ [][NextHead]_vars

\* ------------------------------------------------------------------
\* extract_text_below, called on its own
\* ------------------------------------------------------------------
\* roi = self.image[y1:y2, x1:x2]
TextRoiCols(pos) == Slice(TextRoi(pos).x1, TextRoi(pos).x2, width)
TextRoiRows(pos) == Slice(TextRoi(pos).y1, TextRoi(pos).y2, height)

\* explored candidate positions: inside the image and on its borders
TextXs == {0, 50, 80, 100, TextImageWidth - 80, TextImageWidth - 1, TextImageWidth}
TextYs == {0, 20, TextImageHeight - 90, TextImageHeight - 80, TextImageHeight - 11,
           TextImageHeight - 10, TextImageHeight - 1, TextImageHeight}

InitText ==
    /\ width = TextImageWidth
    /\ height = TextImageHeight
    /\ \E x \in TextXs, y \in TextYs : call = [actor_pos |-> <<x, y>>]
    /\ extern = NotCalled
    /\ ret = None
    /\ cstate = "call"
    /\ PipelineIdle
    /\ FilterUnused
    /\ HandlersUnused

\* if roi.size == 0: return "", None
ExtractEmptyRoi ==
    /\ cstate = "call"
    /\ TextRoiEmpty(call.actor_pos)
    /\ ret' = [text |-> <<>>, text_roi |-> None]
    /\ cstate' = "returned"
    /\ UNCHANGED <<call, extern>>
    /\ UNCHANGED <<dvars, fvars, hvars>>

\* result = reader.readtext(roi); return text.strip(), (x1, y1, x2, y2)
ExtractText ==
    /\ cstate = "call"
    /\ ~TextRoiEmpty(call.actor_pos)
    /\ \E spans \in OcrReturns :
         /\ extern' = [called |-> TRUE, spans |-> spans]
         /\ ret' = [text |-> CaptionOf(spans),
                    text_roi |-> RoiBox(TextRoi(call.actor_pos))]
    /\ cstate' = "returned"
    /\ UNCHANGED call
    /\ UNCHANGED <<dvars, fvars, hvars>>

\* easyocr.Reader(...) or reader.readtext(roi) raises
ExtractRaises ==
    /\ cstate = "call"
    /\ ~TextRoiEmpty(call.actor_pos)
    /\ extern' = [called |-> TRUE, spans |-> <<>>]
    /\ cstate' = "raised"
    /\ UNCHANGED <<call, ret>>
    /\ UNCHANGED <<dvars, fvars, hvars>>

NextText ==
    \/ ExtractEmptyRoi
    \/ ExtractText
    \/ ExtractRaises

SpecText == InitText /\ [][NextText]_vars

\* ------------------------------------------------------------------
\* The merge step of detect_actors, applied to a list and to its own output
\* ------------------------------------------------------------------
\* positions at distances 20, 25, 26, 40 and more from one another
MergePoints == { <<0, 0>>, <<20, 0>>, <<40, 0>>, <<25, 0>>, <<0, 26>> }

RECURSIVE SeqsUpTo(_, _)
SeqsUpTo(S, n) ==
    IF n = 0 THEN { <<>> }
    ELSE LET shorter == SeqsUpTo(S, n - 1)
         IN shorter \cup { Append(q, e) : q \in { t \in shorter : Len(t) = n - 1 }, e \in S }

InitMerge ==
    /\ width = 0
    /\ height = 0
    /\ \E ps \in SeqsUpTo(MergePoints, MaxMerge) : call = [positions |-> ps]
    /\ extern = NotCalled
    /\ ret = None
    /\ cstate = "call"
    /\ PipelineIdle
    /\ FilterUnused
    /\ HandlersUnused

\* final_actors = []; for a in verified: ...
MergeOnce ==
    /\ cstate = "call"
    /\ ret' = [first |-> RemoveNearDuplicates(call.positions)]
    /\ cstate' = "merged"
    /\ UNCHANGED <<call, extern>>
    /\ UNCHANGED <<dvars, fvars, hvars>>

\* the same loop, run over the list it produced
MergeAgain ==
    /\ cstate = "merged"
    /\ ret' = [first |-> ret.first, second |-> RemoveNearDuplicates(ret.first)]
    /\ cstate' = "remerged"
    /\ UNCHANGED <<call, extern>>
    /\ UNCHANGED <<dvars, fvars, hvars>>

NextMerge ==
    \/ MergeOnce
    \/ MergeAgain

SpecMerge == InitMerge /\ [][NextMerge]_vars

\* ------------------------------------------------------------------
\* preprocess, applied to a grayscale image and to its own output
\* ------------------------------------------------------------------
MEAN_MIDPOINT == 127
THRESH == 50
MAXVAL == 255

RECURSIVE Sum(_)
Sum(gray) == IF gray = <<>> THEN 0 ELSE Head(gray) + Sum(Tail(gray))

\* (mutation) the polarity test uses the binarization threshold
IsLightAtThresh(gray) == Sum(gray) > THRESH * Len(gray)

\* np.mean(gray) > 127
IsLight(gray) == Sum(gray) > MEAN_MIDPOINT * Len(gray)

\* 255 - gray
Inverted(gray) == [k \in 1..Len(gray) |-> 255 - gray[k]]

\* cv2.threshold(gray, 50, 255, cv2.THRESH_BINARY)
Threshold(gray) == [k \in 1..Len(gray) |-> IF gray[k] > THRESH THEN MAXVAL ELSE 0]

Preprocess(gray) == Threshold(IF IsLight(gray) THEN Inverted(gray) ELSE gray)

\* 8-bit intensities around the threshold, the midpoint and their inverses
PixelValues == {0, 50, 51, 127, 128, 204, 205, 255}

InitBinarize ==
    /\ width = 0
    /\ height = 0
    /\ \E gray \in SeqsUpTo(PixelValues, MaxPixels) :
         /\ gray # <<>>
         /\ call = [gray |-> gray]
    /\ extern = NotCalled
    /\ ret = None
    /\ cstate = "call"
    /\ PipelineIdle
    /\ FilterUnused
    /\ HandlersUnused

\* binary = self.preprocess()
Binarize ==
    /\ cstate = "call"
    /\ ret' = [first |-> Preprocess(call.gray)]
    /\ cstate' = "binarized"
    /\ UNCHANGED <<call, extern>>
    /\ UNCHANGED <<dvars, fvars, hvars>>

\* preprocess over the mask it produced
BinarizeAgain ==
    /\ cstate = "binarized"
    /\ ret' = [first |-> ret.first, second |-> Preprocess(ret.first)]
    /\ cstate' = "rebinarized"
    /\ UNCHANGED <<call, extern>>
    /\ UNCHANGED <<dvars, fvars, hvars>>

NextBinarize ==
    \/ Binarize
    \/ BinarizeAgain

SpecBinarize == InitBinarize /\ [][NextBinarize]_vars

\* ------------------------------------------------------------------
\* Properties of the detection pipeline
\* ------------------------------------------------------------------
\* the elements of seq at the indices in keep, in increasing index order
RECURSIVE PickFrom(_, _, _)
PickFrom(seq, keep, k) ==
    IF k > Len(seq) THEN <<>>
    ELSE (IF k \in keep THEN <<seq[k]>> ELSE <<>>) \o PickFrom(seq, keep, k + 1)

\* keep is the first-wins selection of seq: an element is kept exactly when
\* it is more than sqrt(r2) away from every element kept before it
FirstWins(seq, keep, r2) ==
    \A k \in 1..Len(seq) :
        k \in keep <=> \A j \in keep : j < k => Dist2(seq[j], seq[k]) > r2

Matched == pc \in {"verify", "draw", "done", "raised"}
Returned == pc = "done"

\* the candidates whose head was confirmed, in detection order
ConfirmedCandidates == SelectSeq(actors, LAMBDA p : p \in DOMAIN hough /\ hough[p])

\* C1: the returned raw_records hold exactly one record per retained
\* candidate: as many records as final_count and as final_positions, with
\* ids 1..final_count.
C1_RecordsAreRetained ==
    Returned =>
        /\ Len(result.raw_records) = result.final_count
        /\ Len(result.final_positions) = result.final_count
        /\ \A k \in 1..Len(result.raw_records) : result.raw_records[k][1] = k

\* C2: the returned final_positions are pairwise more than 25 px apart, each
\* is a head-confirmed candidate, and a confirmed candidate is retained
\* exactly when it is farther than 25 px from every previously retained one,
\* in detection order.
C2_DedupFirstWins ==
    Returned =>
        LET fp == result.final_positions
            c  == ConfirmedCandidates
        IN  /\ \A i, j \in 1..Len(fp) : i < j => Dist2(fp[i], fp[j]) > 625
            /\ \A i \in 1..Len(fp) : \E k \in 1..Len(c) : fp[i] = c[k]
            /\ \E keep \in SUBSET (1..Len(c)) :
                   /\ FirstWins(c, keep, 625)
                   /\ fp = PickFrom(c, keep, 1)

\* a confirmed candidate was dropped and a later one, within 25 px of the
\* dropped one, was retained
C2_Witness ==
    /\ Returned
    /\ Len(ConfirmedCandidates) = 3
    /\ result.final_positions = <<ConfirmedCandidates[1], ConfirmedCandidates[3]>>
    /\ Dist2(ConfirmedCandidates[2], ConfirmedCandidates[3]) <= 625

\* C5: two completed runs over the same candidates and head outcomes return
\* the same final_count and final_positions, whatever text recognition
\* returned.
C5_CaptionDoesNotGate ==
    (Returned /\ prev # None) =>
        /\ result.final_count = prev.final_count
        /\ result.final_positions = prev.final_positions

\* two completed runs counted actors and read a different number of captions
C5_Witness ==
    /\ Returned
    /\ prev # None
    /\ result.final_count > 0
    /\ prev.named # NamedCount(result.raw_records)

\* C6: a text-recognition failure for a confirmed candidate is absorbed: the
\* run does not abort and the candidate gets an empty caption.
C6_OcrFailureAbsorbed ==
    \A i \in ocr_failed :
        /\ pc # "raised"
        /\ (Returned => result.raw_records[i] = <<i, <<>>>>)

\* the accepted locations in visiting order: by template size, then by row,
\* then by column
VisitBefore(a, b) ==
    \/ a.size < b.size
    \/ a.size = b.size /\ a.pt[2] < b.pt[2]
    \/ a.size = b.size /\ a.pt[2] = b.pt[2] /\ a.pt[1] < b.pt[1]

VisitedCenters ==
    LET n == Cardinality(locs)
        s == CHOOSE f \in [1..n -> locs] :
                 \A i, j \in 1..n : i < j => VisitBefore(f[i], f[j])
    IN  [k \in 1..n |-> <<s[k].pt[1] + s[k].size \div 2, s[k].pt[2] + s[k].size \div 2>>]

\* C10: the candidates of find_actors_by_template are pairwise more than
\* 15 px apart; they are the first-wins selection of the accepted locations'
\* centers (location + size//2) visited by size, then in raster order; no
\* accepted location gives the empty list.
C10_MatcherFirstWins ==
    Matched =>
        /\ \A i, j \in 1..Len(actors) : i < j => Dist2(actors[i], actors[j]) > 225
        /\ \E keep \in SUBSET (1..Cardinality(locs)) :
               /\ FirstWins(VisitedCenters, keep, 225)
               /\ actors = PickFrom(VisitedCenters, keep, 1)
        /\ (locs = {} => actors = <<>>)

\* two locations of one size accepted in raster order, a third suppressed
C10_Witness ==
    /\ Matched
    /\ Cardinality(locs) = 3
    /\ actors = << <<30, 20>>, <<20, 38>> >>

\* ------------------------------------------------------------------
\* Properties of the report filter
\* ------------------------------------------------------------------
\* positions of the characters of a caption that are not whitespace
Inked(name) == { i \in 1..Len(name) : name[i] \notin {" ", "\t", "\n"} }

\* the caption between its first and its last non-whitespace character
Trimmed(name) ==
    LET lo == CHOOSE i \in Inked(name) : \A j \in Inked(name) : i <= j
        hi == CHOOSE i \in Inked(name) : \A j \in Inked(name) : i >= j
    IN  [k \in 1..(hi - lo + 1) |-> name[lo + k - 1]]

\* indices of the argument's records that carry a name
NamedIndices == { k \in 1..Len(actors_list) : Inked(actors_list[k][2]) # {} }

\* C3: the returned list holds exactly the records whose caption is neither
\* empty nor whitespace-only, in their original order, captions trimmed,
\* ids 1..k, whatever the input ids.
C3_FilterKeepsNamed ==
    fstate = "returned" =>
        /\ Len(renumbered) = Cardinality(NamedIndices)
        /\ \A k \in NamedIndices :
             LET j == Cardinality({ m \in NamedIndices : m <= k })
             IN  renumbered[j] = <<j, Trimmed(actors_list[k][2])>>

\* three records with ids 3, 2, 1: a named one, a whitespace-only one, and
\* one whose caption is trimmed
C3_Witness ==
    /\ fstate = "returned"
    /\ actors_list = << <<3, <<"a">> >>, <<2, <<" ">> >>, <<1, <<" ", "a">> >> >>
    /\ renumbered = << <<1, <<"a">> >>, <<2, <<"a">> >> >>

HandlerFinished == hpc = "finished"

\* C7: once the temporary upload file has been created, it no longer exists
\* when the handler finishes, on every exit path.
C7_TempFileGone ==
    (HandlerFinished /\ req.created # None) => req.created \notin files

\* C8: when the image cannot be loaded, the run fails with an error carrying
\* a message before any pipeline stage runs: no stage is performed, no
\* overlay is written by the request, and the answer is the error alone.
C8_LoadFailureFailsFast ==
    (hpc # "unused" /\ req # None /\ req.image = "unreadable") =>
        /\ req.stages = {}
        /\ [path |-> OVERLAY_PATH, by |-> req.id] \notin write_log
        /\ hpc \in {"except", "finally", "finished"}
        /\ req.exc = "Could not load image"
        /\ hpc \in {"finally", "finished"} =>
               /\ response.status = 500
               /\ response.kind = "error"
               /\ response.detail = <<"Error processing image", "Could not load image">>
               /\ response.embedded = 0

\* a handler finished after its image could not be loaded
C8_Witness ==
    /\ HandlerFinished
    /\ req.image = "unreadable"
    /\ response.status = 500

\* C9: every file a request writes is named for that request alone and is
\* written by no other request, and a report embeds only an overlay whose
\* content the same request rendered.
C9_ArtifactsPerInvocation ==
    /\ \A w1, w2 \in write_log : w1.path = w2.path => w1.by = w2.by
    /\ \A r \in read_log : r.content_by = r.by

\* ------------------------------------------------------------------
\* Properties of verify_head_circle
\* ------------------------------------------------------------------
\* the circles HoughCircles returned, in image coordinates: the ROI's
\* clipped left and top edges added
DetectedAbs ==
    LET x == call.actor_pos[1]
        y == call.actor_pos[2]
        left == IF x - 25 < 0 THEN 0 ELSE x - 25
        top == IF y - 35 < 0 THEN 0 ELSE y - 35
    IN  [k \in 1..Len(extern.circles) |->
            <<left + extern.circles[k][1], top + extern.circles[k][2],
              extern.circles[k][3]>>]

\* circle c lies above the candidate and within 25 px of its x
PassesFilter(c) ==
    /\ c[2] < call.actor_pos[2]
    /\ c[1] - call.actor_pos[1] < 25
    /\ call.actor_pos[1] - c[1] < 25

XDistance(c) ==
    IF c[1] >= call.actor_pos[1] THEN c[1] - call.actor_pos[1]
    ELSE call.actor_pos[1] - c[1]

\* C11: verify_head_circle reports confirmed exactly when it returns a
\* circle; the circle has cy < y and |cx - x| < 25; among the detected
\* circles passing that filter it has the least |cx - x|, and it is the
\* first such.
C11_BestHeadCircle ==
    cstate = "returned" =>
        /\ ret.ok <=> ret.circle # None
        /\ ret.circle # None =>
             /\ extern.called
             /\ PassesFilter(ret.circle)
             /\ \E k \in 1..Len(DetectedAbs) :
                  /\ ret.circle = DetectedAbs[k]
                  /\ \A j \in 1..Len(DetectedAbs) :
                       PassesFilter(DetectedAbs[j]) =>
                           /\ XDistance(DetectedAbs[j]) >= XDistance(DetectedAbs[k])
                           /\ (j < k => XDistance(DetectedAbs[j]) > XDistance(DetectedAbs[k]))

\* two circles pass the filter at the same horizontal distance, on either
\* side of the candidate, and the first one is returned
C11_Witness ==
    /\ cstate = "returned"
    /\ extern.called
    /\ Len(extern.circles) = 2
    /\ PassesFilter(DetectedAbs[1])
    /\ PassesFilter(DetectedAbs[2])
    /\ XDistance(DetectedAbs[1]) = XDistance(DetectedAbs[2])
    /\ DetectedAbs[1][1] # DetectedAbs[2][1]
    /\ ret.circle = DetectedAbs[1]

\* the columns and rows of the image within 25 px left/right of x and up to
\* 35 px above y
SearchCols == { c \in 0..(width - 1) :
                  call.actor_pos[1] - 25 <= c /\ c < call.actor_pos[1] + 25 }
SearchRows == { r \in 0..(height - 1) :
                  call.actor_pos[2] - 35 <= r /\ r < call.actor_pos[2] }

\* C12: the head-search ROI is the 50 px wide, 35 px high rectangle above
\* (x, y), clipped to the image; when it has zero area the call returns
\* not-confirmed with no circle and the ROI bounds, and circle detection is
\* not run.
C12_HeadRoiClipped ==
    cstate = "returned" =>
        /\ HeadRoiCols(call.actor_pos) = SearchCols
        /\ HeadRoiRows(call.actor_pos) = SearchRows
        /\ Len(ret.roi_box) = 4
        /\ (SearchCols # {} /\ SearchRows # {}) =>
             /\ ret.roi_box[1] = CHOOSE c \in SearchCols : \A d \in SearchCols : c <= d
             /\ ret.roi_box[2] = CHOOSE r \in SearchRows : \A q \in SearchRows : r <= q
             /\ ret.roi_box[3] = 1 + CHOOSE c \in SearchCols : \A d \in SearchCols : c >= d
             /\ ret.roi_box[4] = 1 + CHOOSE r \in SearchRows : \A q \in SearchRows : r >= q
             /\ extern.called
        /\ (SearchCols = {} \/ SearchRows = {}) =>
             /\ ~extern.called
             /\ ret.ok = FALSE
             /\ ret.circle = None

\* a call whose ROI has zero area returned
C12_Witness ==
    /\ cstate = "returned"
    /\ (SearchCols = {} \/ SearchRows = {})
    /\ ret.ok = FALSE
    /\ ~extern.called

\* ------------------------------------------------------------------
\* Properties of extract_text_below
\* ------------------------------------------------------------------
\* the columns and rows of the image in the rectangle that starts 10 px
\* below y, is 80 px high and 160 px wide centered on x
CaptionCols == { c \in 0..(width - 1) :
                   call.actor_pos[1] - 80 <= c /\ c < call.actor_pos[1] + 80 }
CaptionRows == { r \in 0..(height - 1) :
                   call.actor_pos[2] + 10 <= r /\ r < call.actor_pos[2] + 10 + 80 }

\* C13: the caption ROI starts 10 px below y, is 80 px high and 160 px wide
\* centered on x, clipped to the image; a degenerate ROI or no recognized
\* text gives the empty caption, and text recognition is not called on a
\* degenerate ROI.
C13_CaptionRoi ==
    cstate = "returned" =>
        /\ TextRoiCols(call.actor_pos) = CaptionCols
        /\ TextRoiRows(call.actor_pos) = CaptionRows
        /\ (CaptionCols = {} \/ CaptionRows = {}) =>
               (ret.text = <<>> /\ ~extern.called)
        /\ (extern.called /\ extern.spans = <<>>) => ret.text = <<>>

\* ------------------------------------------------------------------
\* Properties of the merge step
\* ------------------------------------------------------------------
\* C14: the 25 px merge step is idempotent: applied to its own output it
\* returns that output unchanged, same elements in the same order.
C14_MergeIdempotent ==
    cstate = "remerged" => ret.second = ret.first

\* the first merge dropped a position and kept more than one
C14_Witness ==
    /\ cstate = "remerged"
    /\ Len(ret.first) < Len(call.positions)
    /\ Len(ret.first) >= 2
    /\ ret.second = ret.first

\* ------------------------------------------------------------------
\* Properties of preprocess
\* ------------------------------------------------------------------
IsMask(gray) == \A k \in 1..Len(gray) : gray[k] \in {0, 255}

MeanAtMost127(gray) == Sum(gray) <= 127 * Len(gray)

Negative(gray) == [k \in 1..Len(gray) |-> IF gray[k] = 0 THEN 255 ELSE 0]

\* C15 as stated: every mask with pixels in {0, 255} is mapped to itself by
\* the binarizer, and every output pixel of the binarizer is in {0, 255}.
C15_BinarizeIdempotent ==
    /\ cstate = "binarized" =>
          /\ IsMask(ret.first)
          /\ IsMask(call.gray) => ret.first = call.gray
    /\ cstate = "rebinarized" =>
          /\ IsMask(ret.second)
          /\ ret.second = ret.first

\* C15: every mask with pixels in {0, 255} and mean intensity at most 127 is
\* mapped to itself by the binarizer, a mask with a higher mean is mapped to
\* its negative, and every output pixel of the binarizer is in {0, 255}.
C15_DarkMasksAreFixed ==
    /\ cstate = "binarized" =>
          /\ IsMask(ret.first)
          /\ (IsMask(call.gray) /\ MeanAtMost127(call.gray)) => ret.first = call.gray
          /\ (IsMask(call.gray) /\ ~MeanAtMost127(call.gray)) =>
                 ret.first = Negative(call.gray)
    /\ cstate = "rebinarized" =>
          /\ IsMask(ret.second)
          /\ MeanAtMost127(ret.first) => ret.second = ret.first
          /\ ~MeanAtMost127(ret.first) => ret.second = Negative(ret.first)

\* a mostly dark mask with a white pixel was binarized and came back unchanged
C15_Witness ==
    /\ cstate = "binarized"
    /\ IsMask(call.gray)
    /\ MeanAtMost127(call.gray)
    /\ \E k \in 1..Len(call.gray) : call.gray[k] = 255
    /\ ret.first = call.gray

\* ------------------------------------------------------------------
\* Properties of the format dispatch of /detect-actors/
\* ------------------------------------------------------------------
\* the exceptions raised while the image is stored, loaded, analysed or reported
ProcessingErrors ==
    {"copy failed", "Could not load image", "detection failed", "report failed"}

UnknownFormat(r) ==
    /\ r.endpoint = "/detect-actors/"
    /\ r.ext_allowed
    /\ Lower(r.format) \notin {"pdf", "json", "compact-pdf"}

\* C16: a request to /detect-actors/ with an allowed extension and a format
\* other than pdf, json or compact-pdf ends with a 400 error whose detail is
\* the invalid-format message, unless processing the image raised; a 500
\* error is produced only when processing the image itself raised.
C16_InvalidFormatIs400 ==
    HandlerFinished =>
        /\ response.status = 500 => req.exc \in ProcessingErrors
        /\ (UnknownFormat(req) /\ req.exc \notin ProcessingErrors) =>
               /\ response.status = 400
               /\ response.detail = <<"Invalid format">>

====
